---------------------------- MODULE Spec2Model ----------------------------
(***************************************************************************)
(* A model of zime (crates/zime): the synchronization routine              *)
(* Setup::sync_git, the batch retrieval command `pdfs` with its two source *)
(* adapters, and the cache-path sanitizer path_safe_doi.                   *)
(*                                                                         *)
(* Strings the code inspects character by character (identifiers) are      *)
(* sequences of one-character strings.  Every external command and every   *)
(* HTTP exchange is a step whose outcome the environment chooses.          *)
(***************************************************************************)
EXTENDS Integers, Sequences, FiniteSets, TLC

VARIABLES
  \* ---- version-control state of the root directory (the environment)
  insideWorkTree, \* `git rev-parse --is-inside-work-tree` succeeds in the root
  origin,         \* URL of the remote `origin`, or None
  unstaged,       \* the working tree has changes that are not staged
  staged,         \* the index holds changes that are not committed
  unpushed,       \* local commits exist that the remote does not have
  behind,         \* the remote has commits the local branch does not have
  \* ---- the running command
  cmd,            \* "none" | "sync" | "pdfs"
  pc,             \* position inside the command
  result,         \* "none" while running, then "ok" | "err"
  setupGit,       \* Setup.git of the command's Setup value: a URL or None
  \* ---- Setup::sync_git
  status,         \* the output `git status --porcelain` returned, NotRead before
  ops,            \* version-control operations sync_git issued in this run
  failedAt,       \* the operation that failed in this run, or "none"
  pulledNew,      \* the rebase-pull of this run brought remote commits in
  \* ---- the pdfs command
  bib,            \* the bibliography: a sequence of entries
  cache,          \* the pdfs directory: file name -> contents
  pdfDir,         \* the pdfs directory exists
  idx,            \* index of the entry the loop is at
  trace,          \* per processed entry of this run: what the loop did with it
  http,           \* HTTP requests sent in this run
  prevClean,      \* the previous run ended ok and none of its fetches failed
  pdfErr,         \* what ended this run with an error, or "none"
  fetch,          \* the last adapter call of this run: its inputs and result
  \* ---- sanitizer harness
  sanIn,          \* an identifier
  sanOut,         \* the results of applying path_safe_doi to it, repeatedly
  \* ---- the root directory and the files of the store (the environment)
  rootExists,     \* the root directory exists
  dotGit,         \* root/.git exists: the root is a working tree of its own
  configFile,     \* root/zime.toml exists
  bibFile,        \* root/references.bib exists
  ignoreFile,     \* root/.gitignore exists
  remoteEmpty,    \* the remote has no branch `main` yet
  \* ---- the init, index and rm commands
  givenGit,       \* the --git argument of init: a URL or None
  steps,          \* what the running command has done so far, in order
  edit,           \* the running index or rm command: inputs, bibliography in memory
  \* ---- Setup::determine_from
  locStart,       \* the directory the search starts from, as path components
  markers,        \* the directories that hold a `.zime` entry
  locCur,         \* the directory the search is at
  examined,       \* the directories examined so far, in order
  locFound        \* what the search selected: NotYet, Found(d) or Global

gitVars  == <<insideWorkTree, origin, unstaged, staged, unpushed, behind>>
cmdVars  == <<cmd, pc, result, setupGit>>
syncVars == <<status, ops, failedAt, pulledNew>>
pdfVars  == <<bib, cache, pdfDir, idx, trace, http, prevClean, pdfErr, fetch>>
sanVars  == <<sanIn, sanOut>>
fsVars   == <<rootExists, dotGit, configFile, bibFile, ignoreFile>>
initVars == <<givenGit, steps, edit>>
locVars  == <<locStart, markers, locCur, examined, locFound>>
vars     == <<gitVars, cmdVars, syncVars, pdfVars, sanVars, fsVars, remoteEmpty,
              initVars, locVars>>

None    == "None"
NotRead == "NotRead"
Urls    == {"git@host:refs"}

(***************************************************************************)
(* Setup::new: the bound remote of a Setup value.                          *)
(***************************************************************************)
\* Variant: a URL given by the caller is bound whatever the root holds.
SetupNewGivenFirst(given) ==
  IF given # None
    THEN [ok |-> TRUE, git |-> given]
    ELSE IF insideWorkTree /\ origin # None
           THEN [ok |-> TRUE, git |-> origin]
           ELSE [ok |-> ~insideWorkTree, git |-> None]
\* Setup::new(git, root) for the root the variables describe.
SetupNew(given) ==
  IF insideWorkTree
    THEN IF origin = None
           THEN [ok |-> FALSE, git |-> None]   \* `remote get-url origin` fails: `?`
           ELSE [ok |-> TRUE, git |-> origin]
    ELSE [ok |-> TRUE, git |-> given]

(***************************************************************************)
(* Setup::sync_git, one action per external command it runs.               *)
(***************************************************************************)
\* `git status --porcelain`: one line per changed path, empty when clean.
Porcelain == IF unstaged \/ staged THEN "M references.bib" ELSE ""

\* `!status.is_empty()` right after the read: commit if any.
CommitNeeded(out) == out # ""

\* Variants of the push guard: the tree read again; no guard at all.
WasDirtyRequeried == unstaged \/ staged
WasDirtyAlways == TRUE
\* Variant: the push guard also looks for commits that were never pushed.
WasDirtyOrUnpushed == status # "" \/ unpushed
\* `!status.is_empty()` before the push: the output recorded at the start.
WasDirty == status # ""

\* Variant: the error is dropped (`let _ =`) and sync_git goes on.
AbortIgnored(op) ==
  /\ failedAt' = op
  /\ pc' = (CASE op = "status" -> "pull"
              [] op = "stageAll" -> "commit"
              [] op = "commit" -> "pull"
              [] op = "pullRebase" -> "push"
              [] OTHER -> "done")
  /\ result' = (IF op = "push" THEN "ok" ELSE result)
\* A failing command: `?` returns the error from sync_git and from the command.
Abort(op) ==
  /\ failedAt' = op
  /\ pc' = "done"
  /\ result' = "err"

\* Command::Sync: Setup::determine_from_cwd()?, then setup.sync_git()?.
CmdSync ==
  /\ pc \in {"idle", "done"}
  /\ cmd' = "sync"
  /\ status' = NotRead
  /\ ops' = <<>>
  /\ failedAt' = "none"
  /\ pulledNew' = FALSE
  /\ LET s == SetupNew(None) IN
       \/ /\ s.ok
          /\ setupGit' = s.git
          /\ pc' = "sync_git"
          /\ result' = "none"
       \/ /\ ~s.ok
          /\ setupGit' = None
          /\ pc' = "done"
          /\ result' = "err"
  /\ UNCHANGED <<gitVars, pdfVars, sanVars,
                 fsVars, initVars, locVars, remoteEmpty>>

\* Variant: the body runs whether or not a remote is bound.
SyncGitEnterAlways ==
  /\ pc = "sync_git"
  /\ pc' = "status"
  /\ UNCHANGED <<gitVars, cmd, result, setupGit, syncVars, pdfVars, sanVars,
                 fsVars, initVars, locVars, remoteEmpty>>
\* sync_git's `if let Some(_git) = self.git()`: without a remote, Ok(()).
SyncGitEnter ==
  /\ pc = "sync_git"
  /\ \/ /\ setupGit # None
        /\ pc' = "status"
        /\ UNCHANGED result
     \/ /\ setupGit = None
        /\ pc' = "done"
        /\ result' = "ok"
  /\ UNCHANGED <<gitVars, cmd, setupGit, syncVars, pdfVars, sanVars,
                 fsVars, initVars, locVars, remoteEmpty>>

\* `git status --porcelain` .read()?
SyncStatus ==
  /\ pc = "status"
  /\ ops' = Append(ops, "status")
  /\ \/ /\ status' = Porcelain
        /\ pc' = IF CommitNeeded(Porcelain) THEN "add" ELSE "pull"
        /\ UNCHANGED <<failedAt, result>>
     \/ /\ Abort("status")
        /\ UNCHANGED status
  /\ UNCHANGED <<gitVars, cmd, setupGit, pulledNew, pdfVars, sanVars,
                 fsVars, initVars, locVars, remoteEmpty>>

\* `git add .` .run()?
SyncStageAll ==
  /\ pc = "add"
  /\ ops' = Append(ops, "stageAll")
  /\ \/ /\ staged' = (staged \/ unstaged)
        /\ unstaged' = FALSE
        /\ pc' = "commit"
        /\ UNCHANGED <<failedAt, result>>
     \/ /\ Abort("stageAll")
        /\ UNCHANGED <<staged, unstaged>>
  /\ UNCHANGED <<insideWorkTree, origin, unpushed, behind, cmd, setupGit,
                 status, pulledNew, pdfVars, sanVars,
                 fsVars, initVars, locVars, remoteEmpty>>

\* `git commit -m "zime: auto commit"` .run()?  (nothing staged: git exits 1)
SyncCommit ==
  /\ pc = "commit"
  /\ ops' = Append(ops, "commit")
  /\ \/ /\ staged
        /\ staged' = FALSE
        /\ unpushed' = TRUE
        /\ pc' = "pull"
        /\ UNCHANGED <<failedAt, result>>
     \/ /\ Abort("commit")
        /\ UNCHANGED <<staged, unpushed>>
  /\ UNCHANGED <<insideWorkTree, origin, unstaged, behind, cmd, setupGit,
                 status, pulledNew, pdfVars, sanVars,
                 fsVars, initVars, locVars, remoteEmpty>>

\* Variant: a failed pull is tried again.
SyncPullRebaseRetrying ==
  /\ pc = "pull"
  /\ ops' = Append(ops, "pullRebase")
  /\ Len(ops) < 6
  /\ \/ /\ ~remoteEmpty
        /\ behind' = FALSE
        /\ pulledNew' = behind
        /\ IF WasDirty
             THEN pc' = "push" /\ UNCHANGED result
             ELSE pc' = "done" /\ result' = "ok"
     \/ /\ pc' = "pull"
        /\ UNCHANGED <<behind, pulledNew, result>>
  /\ UNCHANGED <<insideWorkTree, origin, staged, unstaged, unpushed, cmd,
                 setupGit, status, failedAt, pdfVars, sanVars,
                 fsVars, initVars, locVars, remoteEmpty>>
\* `git pull origin main --rebase` .run()?, then `if !status.is_empty()`.
\* A failed rebase of local commits may leave conflicted files behind.
SyncPullRebase ==
  /\ pc = "pull"
  /\ ops' = Append(ops, "pullRebase")
  /\ \/ /\ ~remoteEmpty      \* git cannot find the remote ref `main` otherwise
        /\ behind' = FALSE
        /\ pulledNew' = behind
        /\ IF WasDirty
             THEN pc' = "push" /\ UNCHANGED result
             ELSE pc' = "done" /\ result' = "ok"
        /\ UNCHANGED <<failedAt, unstaged>>
     \/ /\ Abort("pullRebase")
        /\ \E conflict \in {c \in BOOLEAN : c => (unpushed /\ behind)} :
             unstaged' = (unstaged \/ conflict)
        /\ UNCHANGED <<behind, pulledNew>>
  /\ UNCHANGED <<insideWorkTree, origin, staged, unpushed, cmd, setupGit,
                 status, pdfVars, sanVars,
                 fsVars, initVars, locVars, remoteEmpty>>

\* `git push origin main` .run()?  (rejected while the remote is ahead)
SyncPush ==
  /\ pc = "push"
  /\ ops' = Append(ops, "push")
  /\ \/ /\ ~(unpushed /\ behind)
        /\ unpushed' = FALSE
        /\ remoteEmpty' = FALSE
        /\ pc' = "done"
        /\ result' = "ok"
        /\ UNCHANGED failedAt
     \/ /\ Abort("push")
        /\ UNCHANGED <<unpushed, remoteEmpty>>
  /\ UNCHANGED <<insideWorkTree, origin, unstaged, staged, behind, cmd,
                 setupGit, status, pulledNew, pdfVars, sanVars, fsVars,
                 initVars, locVars>>

\* The user (or a mutating command) changes a file under the root.
EditTree ==
  /\ ~unstaged
  /\ unstaged' = TRUE
  /\ UNCHANGED <<insideWorkTree, origin, staged, unpushed, behind, cmdVars,
                 syncVars, pdfVars, sanVars,
                 fsVars, initVars, locVars, remoteEmpty>>

\* Someone else pushes to the remote.
RemoteAdvance ==
  /\ origin # None
  /\ ~behind
  /\ behind' = TRUE
  /\ UNCHANGED <<insideWorkTree, origin, unstaged, staged, unpushed, cmdVars,
                 syncVars, pdfVars, sanVars,
                 fsVars, initVars, locVars, remoteEmpty>>

(***************************************************************************)
(* Strings: str::find, str::contains, str::split_once, str::replace.       *)
(***************************************************************************)
RECURSIVE FindFrom(_, _, _)
\* The first position >= k at which pat occurs in s, 0 when there is none.
FindFrom(s, pat, k) ==
  IF k + Len(pat) - 1 > Len(s) THEN 0
  ELSE IF SubSeq(s, k, k + Len(pat) - 1) = pat THEN k
  ELSE FindFrom(s, pat, k + 1)

Find(s, pat) == FindFrom(s, pat, 1)

Contains(s, pat) == Find(s, pat) # 0

\* s.split_once(pat): the text before and after the first occurrence.
SplitOnce(s, pat) ==
  LET k == Find(s, pat) IN
    IF k = 0
      THEN [found |-> FALSE, before |-> <<>>, after |-> <<>>]
      ELSE [found |-> TRUE,
            before |-> SubSeq(s, 1, k - 1),
            after |-> SubSeq(s, k + Len(pat), Len(s))]

RECURSIVE ReplaceN(_, _, _, _)
\* s.replacen(c, to, n): the first n occurrences of the character c replaced.
ReplaceN(s, c, to, n) ==
  IF s = <<>> THEN <<>>
  ELSE IF Head(s) = c /\ n > 0
    THEN to \o ReplaceN(Tail(s), c, to, n - 1)
    ELSE <<Head(s)>> \o ReplaceN(Tail(s), c, to, n)

\* s.replace(c, to): every occurrence replaced.
Replace(s, c, to) == ReplaceN(s, c, to, Len(s))

(***************************************************************************)
(* path_safe_doi and is_arxiv.                                             *)
(***************************************************************************)
\* Variant: replacen(.., 1).
path_safe_doi_first_only(doi) == ReplaceN(doi, "/", <<"-", "-">>, 1)
\* Variant: replace("/", "_").
path_safe_doi_underscore(doi) == Replace(doi, "/", <<"_">>)
\* doi.replace("/", "--")
path_safe_doi(doi) == Replace(doi, "/", <<"-", "-">>)

ArxivMarker == <<"/", "A", "R", "X", "I", "V", ".">>

\* Variant: the marker without its leading slash.
is_arxiv_no_slash(doi) == Contains(doi, Tail(ArxivMarker))
\* doi.contains("/ARXIV.")
is_arxiv(doi) == Contains(doi, ArxivMarker)

(***************************************************************************)
(* The network: what a GET may come back with.                             *)
(***************************************************************************)
NoBytes == "NoBytes"
PdfBodies == {"pdfA", "pdfB"}

\* send()/bytes()/text() fail, or a response arrives: reqwest returns the body
\* of a response whatever its status.
HttpError == [kind |-> "error", status |-> 0, body |-> NoBytes]
DocResponses ==
  {HttpError}
    \cup {[kind |-> "ok", status |-> 200, body |-> b] : b \in PdfBodies}
    \cup {[kind |-> "ok", status |-> 404, body |-> "notFoundPage"]}

\* Landing pages, as lines of tokens.
EmbedTag == "embed type=\"application/pdf\" "
SrcAttr  == "src=\""
Quote    == "\""
EmbedMarker == <<EmbedTag, SrcAttr>>
Pages ==
  { << <<"<html>">>, <<"<p>", "captcha", "</p>">> >>,
    << <<"<html>">>, <<"<", EmbedTag, SrcAttr, "/", "d", "/", "x.pdf", Quote, ">">> >>,
    << <<"<", EmbedTag, SrcAttr, "https:", "/", "/", "cdn", "/", "x.pdf", Quote, ">">>,
       <<"<", EmbedTag, SrcAttr, "/", "other.pdf", Quote, ">">> >> }
PageResponses ==
  {HttpError} \cup {[kind |-> "ok", status |-> 200, body |-> p] : p \in Pages}

(***************************************************************************)
(* remotes::arxiv::fetch_pdf and remotes::scihub::fetch_pdf.               *)
(***************************************************************************)
Failed(urls) == [ok |-> FALSE, bytes |-> NoBytes, urls |-> urls]
Fetched(bytes, urls) == [ok |-> TRUE, bytes |-> bytes, urls |-> urls]

\* arxiv::fetch_pdf(doi) when the GET comes back with resp.
arxiv_fetch_pdf(doi, resp) ==
  LET sp == SplitOnce(doi, ArxivMarker) IN
    IF ~sp.found
      THEN Failed(<<>>)
      ELSE LET url == <<"https://arxiv.org/pdf/">> \o sp.after \o <<".pdf">> IN
             IF resp.kind = "error"
               THEN Failed(<<url>>)
               ELSE Fetched(resp.body, <<url>>)

RECURSIVE LastLineWith(_, _, _)
\* Variant: the last line from k on that holds the marker, or 0.
LastLineWith(page, marker, k) ==
  IF k > Len(page) THEN 0
  ELSE LET later == LastLineWith(page, marker, k + 1) IN
         IF later # 0 THEN later
         ELSE IF Contains(page[k], marker) THEN k ELSE 0
RECURSIVE FirstLineWith(_, _, _)
\* body.lines().find(|line| line.contains(marker)): its index from k on, or 0.
FirstLineWith(page, marker, k) ==
  IF k > Len(page) THEN 0
  ELSE IF Contains(page[k], marker) THEN k
  ELSE FirstLineWith(page, marker, k + 1)

\* line.split(sep).nth(1): the text between the first and the second sep.
SplitNth1(line, sep) ==
  LET rest == SplitOnce(line, sep).after
      nxt  == SplitOnce(rest, sep)
  IN IF nxt.found THEN nxt.before ELSE rest

\* text.split(sep).next(): the text before the first sep.
SplitFirst(text, sep) ==
  LET sp == SplitOnce(text, sep) IN IF sp.found THEN sp.before ELSE text

\* The embed src of a line that holds the marker.
EmbedSrc(line) == SplitFirst(SplitNth1(line, <<SrcAttr>>), <<Quote>>)

\* Variant: the extracted value is requested as it is.
ResolveUrlNever(pdf_url) == pdf_url
\* `if pdf_url.starts_with("/")`: resolved against the fixed origin.
ResolveUrl(pdf_url) ==
  IF pdf_url # <<>> /\ Head(pdf_url) = "/"
    THEN <<"https://sci-hub.ru">> \o pdf_url
    ELSE pdf_url

\* scihub::fetch_pdf(doi) when the two GETs come back with page and doc.
scihub_fetch_pdf(doi, page, doc) ==
  LET url == <<"https://sci-hub.ru", "/">> \o doi IN
    IF page.kind = "error"
      THEN Failed(<<url>>)
      ELSE LET k == FirstLineWith(page.body, EmbedMarker, 1) IN
             IF k = 0
               THEN Failed(<<url>>)
               ELSE LET pdf_url == ResolveUrl(EmbedSrc(page.body[k])) IN
                      IF doc.kind = "error"
                        THEN Failed(<<url, pdf_url>>)
                        ELSE Fetched(doc.body, <<url, pdf_url>>)

(***************************************************************************)
(* Command::Pdfs, one action per way an iteration of its loop can go.      *)
(***************************************************************************)
NoDoi == <<"NoDoi">>

\* setup.pdf_dir().join(format!("{}.pdf", path_safe_doi(&doi)))
CachePath(doi) == path_safe_doi(doi) \o <<".pdf">>

\* Variant: the cache is never consulted.
PathExistsNever(path) == FALSE
\* path.exists()
PathExists(path) == \E f \in cache : f.name = path

\* fs::create_dir_all and fs::write: the write creates or truncates the file
\* and then writes; it may fail before or after the file exists.
FsOutcomes == {"ok", "mkdir_failed", "write_failed", "write_truncated"}

Written(path, bytes) ==
  {f \in cache : f.name # path} \cup {[name |-> path, bytes |-> bytes]}

Processed(outcome, adapters, reqs) ==
  [entry |-> idx, outcome |-> outcome, adapters |-> adapters, reqs |-> reqs]

\* Variant: the entry's failure is returned from the command.
SkipEntryAborting(outcome, adapters, reqs) ==
  /\ trace' = Append(trace, Processed(outcome, adapters, reqs))
  /\ pc' = "done"
  /\ result' = "err"
  /\ pdfErr' = outcome
  /\ UNCHANGED <<idx, cache, pdfDir>>
\* warn!(...) or debug!(...), then continue.
SkipEntry(outcome, adapters, reqs) ==
  /\ trace' = Append(trace, Processed(outcome, adapters, reqs))
  /\ idx' = idx + 1
  /\ UNCHANGED <<cache, pdfDir, pc, result, pdfErr>>

\* fs::create_dir_all(setup.pdf_dir())?; fs::write(&path, pdf)?;
Persist(adapter, path, r) ==
  \E fs \in FsOutcomes :
    /\ trace' = Append(trace,
         Processed(IF fs = "ok" THEN "fetched" ELSE fs, <<adapter>>, Len(r.urls)))
    /\ pdfDir' = (pdfDir \/ fs # "mkdir_failed")
    /\ cache' = CASE fs = "ok" -> Written(path, r.bytes)
                  [] fs = "write_truncated" -> Written(path, "truncated")
                  [] OTHER -> cache
    /\ IF fs = "ok"
         THEN idx' = idx + 1 /\ UNCHANGED <<pc, result, pdfErr>>
         ELSE /\ pc' = "done"
              /\ result' = "err"
              /\ pdfErr' = fs
              /\ UNCHANGED idx

\* Variant: what the adapter returned is written whether it failed or not.
AfterFetchSavingAlways(adapter, path, r) ==
  /\ http' = http + Len(r.urls)
  /\ Persist(adapter, path, r)
\* The `match ...::fetch_pdf(&doi)` arms and what follows them.
AfterFetch(adapter, path, r) ==
  /\ http' = http + Len(r.urls)
  /\ IF r.ok
       THEN Persist(adapter, path, r)
       ELSE SkipEntry("failed", <<adapter>>, Len(r.urls))

\* What is kept of an adapter call: the responses to the requests it sent.
NoResponse == [kind |-> "none", status |-> 0, body |-> NoBytes]
NoFetch == [adapter |-> "none"]
FetchRecord(adapter, doi, page, doc, r) ==
  [adapter |-> adapter, doi |-> doi, res |-> r,
   page |-> IF adapter = "scihub" THEN page ELSE NoResponse,
   doc |-> IF (adapter = "arxiv" /\ Len(r.urls) = 1) \/ Len(r.urls) = 2
             THEN doc ELSE NoResponse]

AtEntry == cmd = "pdfs" /\ pc = "loop" /\ idx <= Len(bib)

\* Command::Pdfs up to the loop: determine_from_cwd()?, setup.bib()?.
CmdPdfs ==
  /\ pc \in {"idle", "done"}
  /\ cmd' = "pdfs"
  /\ trace' = <<>>
  /\ http' = 0
  /\ prevClean' = /\ cmd = "pdfs"
                  /\ result = "ok"
                  /\ \A k \in 1..Len(trace) : trace[k].outcome # "failed"
  /\ LET s == SetupNew(None) IN
       /\ setupGit' = s.git
       /\ \E loaded \in BOOLEAN :
            IF s.ok /\ loaded
              THEN pc' = "loop" /\ idx' = 1 /\ result' = "none" /\ pdfErr' = "none"
              ELSE /\ pc' = "done"
                   /\ idx' = 0
                   /\ result' = "err"
                   /\ pdfErr' = (IF s.ok THEN "bib" ELSE "setup")
  /\ fetch' = NoFetch
  /\ UNCHANGED <<gitVars, syncVars, bib, cache, pdfDir, sanVars, fsVars,
                 initVars, locVars, remoteEmpty>>

\* entry.doi() is Err: warn!, continue.
PdfsMissingDoi ==
  /\ AtEntry
  /\ bib[idx] = NoDoi
  /\ SkipEntry("nodoi", <<>>, 0)
  /\ UNCHANGED <<gitVars, cmd, setupGit, syncVars, bib, http, prevClean, fetch,
                 sanVars, fsVars, initVars, locVars, remoteEmpty>>

\* path.exists(): debug!, continue.
PdfsSkipCached ==
  /\ AtEntry
  /\ bib[idx] # NoDoi
  /\ PathExists(CachePath(bib[idx]))
  /\ SkipEntry("cached", <<>>, 0)
  /\ UNCHANGED <<gitVars, cmd, setupGit, syncVars, bib, http, prevClean, fetch,
                 sanVars, fsVars, initVars, locVars, remoteEmpty>>

\* is_arxiv(&doi): remotes::arxiv::fetch_pdf(&doi).
PdfsFetchArxiv ==
  /\ AtEntry
  /\ bib[idx] # NoDoi
  /\ ~PathExists(CachePath(bib[idx]))
  /\ is_arxiv(bib[idx])
  /\ \E resp \in DocResponses :
       /\ AfterFetch("arxiv", CachePath(bib[idx]), arxiv_fetch_pdf(bib[idx], resp))
       /\ fetch' = FetchRecord("arxiv", bib[idx], NoResponse, resp,
                               arxiv_fetch_pdf(bib[idx], resp))
  /\ UNCHANGED <<gitVars, cmd, setupGit, syncVars, bib, prevClean, sanVars,
                 fsVars, initVars, locVars, remoteEmpty>>

\* otherwise: remotes::scihub::fetch_pdf(&doi).
PdfsFetchScihub ==
  /\ AtEntry
  /\ bib[idx] # NoDoi
  /\ ~PathExists(CachePath(bib[idx]))
  /\ ~is_arxiv(bib[idx])
  /\ \E page \in PageResponses, doc \in DocResponses :
       /\ AfterFetch("scihub", CachePath(bib[idx]),
                     scihub_fetch_pdf(bib[idx], page, doc))
       /\ fetch' = FetchRecord("scihub", bib[idx], page, doc,
                               scihub_fetch_pdf(bib[idx], page, doc))
  /\ UNCHANGED <<gitVars, cmd, setupGit, syncVars, bib, prevClean, sanVars,
                 fsVars, initVars, locVars, remoteEmpty>>

\* The loop is over: Ok(()).
PdfsDone ==
  /\ cmd = "pdfs"
  /\ pc = "loop"
  /\ idx > Len(bib)
  /\ pc' = "done"
  /\ result' = "ok"
  /\ UNCHANGED <<gitVars, cmd, setupGit, syncVars, bib, cache, pdfDir, idx,
                 trace, http, prevClean, pdfErr, fetch, sanVars, fsVars,
                 initVars, locVars, remoteEmpty>>

\* path_safe_doi applied to an identifier, and again to its result.
SanApply ==
  /\ Len(sanOut) < 2
  /\ sanOut' = Append(sanOut,
       path_safe_doi(IF sanOut = <<>> THEN sanIn ELSE sanOut[Len(sanOut)]))
  /\ UNCHANGED <<gitVars, cmdVars, syncVars, pdfVars, sanIn, fsVars, initVars,
                 locVars, remoteEmpty>>

PdfIdle ==
  /\ bib = <<>>
  /\ cache = {}
  /\ pdfDir = FALSE
  /\ idx = 0
  /\ trace = <<>>
  /\ http = 0
  /\ prevClean = FALSE
  /\ pdfErr = "none"
  /\ fetch = NoFetch

SanIdle ==
  /\ sanIn = <<>>
  /\ sanOut = <<>>

NoEdit == [kind |-> "none"]

\* A root with its files in place; no init, index or rm command has run.
StoreIdle ==
  /\ rootExists = TRUE
  /\ dotGit = insideWorkTree
  /\ configFile = TRUE
  /\ bibFile = TRUE
  /\ ignoreFile = TRUE
  /\ remoteEmpty = FALSE
  /\ givenGit = None
  /\ edit = NoEdit
  /\ steps = <<>>

\* What determine_from has selected: nothing yet, the `.zime` of a directory,
\* or the process-wide default directory.
NotYet == [kind |-> "NotYet"]
Global == [kind |-> "Global"]
Found(d) == [kind |-> "Dir", dir |-> d]

LocIdle ==
  /\ locStart = <<>>
  /\ markers = {}
  /\ locCur = <<>>
  /\ examined = <<>>
  /\ locFound = NotYet

InitSync ==
  /\ insideWorkTree \in BOOLEAN
  /\ origin \in (IF insideWorkTree THEN Urls \cup {None} ELSE {None})
  /\ unstaged \in BOOLEAN
  /\ staged = FALSE
  /\ unpushed = FALSE
  /\ behind = FALSE
  /\ cmd = "none"
  /\ pc = "idle"
  /\ result = "none"
  /\ setupGit = None
  /\ status = NotRead
  /\ ops = <<>>
  /\ failedAt = "none"
  /\ pulledNew = FALSE
  /\ PdfIdle
  /\ SanIdle
  /\ StoreIdle
  /\ LocIdle

NextSync ==
  \/ CmdSync
  \/ SyncGitEnter
  \/ SyncStatus
  \/ SyncStageAll
  \/ SyncCommit
  \/ SyncPullRebase
  \/ SyncPush
  \/ EditTree
  \/ RemoteAdvance

SpecSync == InitSync /\ [][NextSync]_vars

(***************************************************************************)
(* The pdfs command over every small bibliography.                         *)
(***************************************************************************)
MaxEntries == 2

Dois ==
  { <<"1", "/", "A", "R", "X", "I", "V", ".", "2">>,
    <<"1", "/", "A", "R", "X", "I", "V", "2">>,
    <<"A", "R", "X", "I", "V", ".", "2">>,
    <<"a", "/", "b">>,
    <<"a", "-", "-", "b">> }

Bibs == UNION {[1..n -> Dois \cup {NoDoi}] : n \in 0..MaxEntries}

InitPdfs ==
  /\ insideWorkTree = FALSE
  /\ origin = None
  /\ unstaged = FALSE
  /\ staged = FALSE
  /\ unpushed = FALSE
  /\ behind = FALSE
  /\ cmd = "none"
  /\ pc = "idle"
  /\ result = "none"
  /\ setupGit = None
  /\ status = NotRead
  /\ ops = <<>>
  /\ failedAt = "none"
  /\ pulledNew = FALSE
  /\ bib \in Bibs
  /\ cache = {}
  /\ pdfDir = FALSE
  /\ idx = 0
  /\ trace = <<>>
  /\ http = 0
  /\ prevClean = FALSE
  /\ pdfErr = "none"
  /\ fetch = NoFetch
  /\ SanIdle
  /\ StoreIdle
  /\ LocIdle

NextPdfs ==
  \/ CmdPdfs
  \/ PdfsMissingDoi
  \/ PdfsSkipCached
  \/ PdfsFetchArxiv
  \/ PdfsFetchScihub
  \/ PdfsDone

SpecPdfs == InitPdfs /\ [][NextPdfs]_vars

(***************************************************************************)
(* path_safe_doi over every short identifier.                              *)
(***************************************************************************)
MaxLen == 4

SanAlphabet == {"/", "-", "a"}

ExampleDoi ==
  <<"1", "0", ".", "1", "1", "0", "9", "/", "5", ".", "7", "7", "1", "0", "7", "3">>

SanInputs ==
  UNION {[1..n -> SanAlphabet] : n \in 0..MaxLen} \cup {ExampleDoi} \cup Dois

InitSan ==
  /\ insideWorkTree = FALSE
  /\ origin = None
  /\ unstaged = FALSE
  /\ staged = FALSE
  /\ unpushed = FALSE
  /\ behind = FALSE
  /\ cmd = "none"
  /\ pc = "idle"
  /\ result = "none"
  /\ setupGit = None
  /\ status = NotRead
  /\ ops = <<>>
  /\ failedAt = "none"
  /\ pulledNew = FALSE
  /\ PdfIdle
  /\ sanIn \in SanInputs
  /\ sanOut = <<>>
  /\ StoreIdle
  /\ LocIdle

NextSan == SanApply

SpecSan == InitSan /\ [][NextSan]_vars

(***************************************************************************)
(* Setup::determine_from over every small directory tree.                  *)
(***************************************************************************)
MaxDepth == 2
MaxMarkers == 2

\* Absolute directories as their sequence of components; <<>> is the root `/`.
Comps == {"a", "b"}
Dirs == UNION {[1..n -> Comps] : n \in 0..MaxDepth}

\* Variant: the walk goes up two levels at a time.
ParentSkipping(p) == IF Len(p) < 2 THEN <<>> ELSE SubSeq(p, 1, Len(p) - 2)
\* `current.parent()` of a directory other than the root.
Parent(p) == SubSeq(p, 1, Len(p) - 1)

\* `current.join(".zime").exists()`.
HasMarker(d) == d \in markers

SyncIdle ==
  /\ status = NotRead
  /\ ops = <<>>
  /\ failedAt = "none"
  /\ pulledNew = FALSE

\* Setup::determine_from(path): `let mut current = path`.
DetermineFrom ==
  /\ pc \in {"idle", "done"}
  /\ \E path \in Dirs :
       /\ locStart' = path
       /\ locCur' = path
  /\ examined' = <<>>
  /\ locFound' = NotYet
  /\ cmd' = "lookup"
  /\ pc' = "walk"
  /\ result' = "none"
  /\ setupGit' = None
  /\ UNCHANGED <<gitVars, syncVars, pdfVars, sanVars, fsVars, initVars,
                 markers, remoteEmpty>>

\* `if config_dir.exists() { return Self::new(None, Some(config_dir)) }`.
LocateFound ==
  /\ pc = "walk"
  /\ HasMarker(locCur)
  /\ examined' = Append(examined, locCur)
  /\ locFound' = Found(locCur)
  /\ pc' = "new"
  /\ UNCHANGED <<gitVars, cmd, result, setupGit, syncVars, pdfVars, sanVars,
                 fsVars, initVars, locStart, markers, locCur, remoteEmpty>>

\* `if let Some(parent) = current.parent() { current = parent }`.
LocateAscend ==
  /\ pc = "walk"
  /\ ~HasMarker(locCur)
  /\ locCur # <<>>
  /\ examined' = Append(examined, locCur)
  /\ locCur' = Parent(locCur)
  /\ UNCHANGED <<gitVars, cmdVars, syncVars, pdfVars, sanVars, fsVars,
                 initVars, locStart, markers, locFound, remoteEmpty>>

\* Variant: the fallback creates the default directory.
LocateFallbackCreating ==
  /\ pc = "walk"
  /\ ~HasMarker(locCur)
  /\ locCur = <<>>
  /\ examined' = Append(examined, locCur)
  /\ locFound' = Global
  /\ pc' = "new"
  /\ rootExists' = TRUE
  /\ UNCHANGED <<gitVars, cmd, result, setupGit, syncVars, pdfVars, sanVars,
                 dotGit, configFile, bibFile, ignoreFile, initVars, locStart,
                 markers, locCur, remoteEmpty>>
\* `else { break }` at the root, then `Self::new(None, None)`.
LocateFallback ==
  /\ pc = "walk"
  /\ ~HasMarker(locCur)
  /\ locCur = <<>>
  /\ examined' = Append(examined, locCur)
  /\ locFound' = Global
  /\ pc' = "new"
  /\ UNCHANGED rootExists
  /\ UNCHANGED <<gitVars, cmd, result, setupGit, syncVars, pdfVars, sanVars,
                 dotGit, configFile, bibFile, ignoreFile, initVars, locStart,
                 markers, locCur, remoteEmpty>>

\* Setup::new(None, root): `global_config_dir()?` when there is no root, then
\* the two read-only git queries.
LocateSetupNew ==
  /\ pc = "new"
  /\ pc' = "done"
  /\ \/ /\ locFound = Global      \* no resolvable home directory
        /\ result' = "err"
        /\ setupGit' = None
     \/ LET s == SetupNew(None) IN
          /\ result' = (IF s.ok THEN "ok" ELSE "err")
          /\ setupGit' = s.git
  /\ UNCHANGED <<gitVars, cmd, syncVars, pdfVars, sanVars, fsVars, initVars,
                 locVars, remoteEmpty>>

\* The selected root exists when it holds a marker; the default directory
\* may not exist yet.  A working tree is a directory that exists.
InitLocate ==
  /\ rootExists \in BOOLEAN
  /\ insideWorkTree \in (IF rootExists THEN BOOLEAN ELSE {FALSE})
  /\ origin \in (IF insideWorkTree THEN Urls \cup {None} ELSE {None})
  /\ unstaged = FALSE
  /\ staged = FALSE
  /\ unpushed = FALSE
  /\ behind = FALSE
  /\ cmd = "none"
  /\ pc = "idle"
  /\ result = "none"
  /\ setupGit = None
  /\ SyncIdle
  /\ PdfIdle
  /\ SanIdle
  /\ dotGit = insideWorkTree
  /\ configFile = rootExists
  /\ bibFile = rootExists
  /\ ignoreFile = rootExists
  /\ remoteEmpty = FALSE
  /\ givenGit = None
  /\ edit = NoEdit
  /\ steps = <<>>
  /\ locStart = <<>>
  /\ markers \in {m \in SUBSET Dirs : Cardinality(m) <= MaxMarkers}
  /\ (markers # {} => rootExists)
  /\ locCur = <<>>
  /\ examined = <<>>
  /\ locFound = NotYet

NextLocate ==
  \/ DetermineFrom
  \/ LocateFound
  \/ LocateAscend
  \/ LocateFallback
  \/ LocateSetupNew

SpecLocate == InitLocate /\ [][NextLocate]_vars

\* The walk is a sequential loop: a step that can be taken is taken.
SpecLocateFair ==
  SpecLocate /\ WF_vars(LocateFound \/ LocateAscend \/ LocateFallback)

(***************************************************************************)
(* Command::Init, one action per step, followed by Setup::sync_git.        *)
(***************************************************************************)
\* The --git argument: the URL of the origin in place, or another one.
GivenUrls == Urls \cup {"git@host:other"}

Step(op, ok) == [op |-> op, ok |-> ok]

\* A step of init fails with `?`: the error leaves main.
InitAbort(op) ==
  /\ steps' = Append(steps, Step(op, FALSE))
  /\ pc' = "done"
  /\ result' = "err"

\* A new file under the root shows in `git status` of a working tree.
Touched == unstaged \/ insideWorkTree

\* Command::Init up to `Setup::new(git, root)?`.
CmdInit ==
  /\ pc \in {"idle", "done"}
  /\ cmd' = "init"
  /\ \E git \in GivenUrls \cup {None} :
       /\ givenGit' = git
       /\ LET s == SetupNew(git) IN
            \/ /\ s.ok
               /\ setupGit' = s.git
               /\ pc' = "init_root"
               /\ result' = "none"
            \/ /\ ~s.ok
               /\ setupGit' = None
               /\ pc' = "done"
               /\ result' = "err"
  /\ steps' = <<>>
  /\ status' = NotRead
  /\ ops' = <<>>
  /\ failedAt' = "none"
  /\ pulledNew' = FALSE
  /\ UNCHANGED <<gitVars, pdfVars, sanVars, fsVars, edit, locVars, remoteEmpty>>

\* fs::create_dir_all(setup.root())?; then `if let Some(git) = setup.git()`.
InitCreateRoot ==
  /\ cmd = "init"
  /\ pc = "init_root"
  /\ \/ /\ rootExists' = TRUE
        /\ \E inside \in (IF rootExists THEN {insideWorkTree} ELSE BOOLEAN),
              url \in (IF rootExists THEN {origin} ELSE Urls \cup {None}) :
             \* a new directory may lie in the working tree of an ancestor
             /\ insideWorkTree' = inside
             /\ origin' = (IF inside THEN url ELSE None)
        /\ steps' = Append(steps, Step("root", TRUE))
        /\ pc' = IF setupGit # None THEN "init_git" ELSE "init_config"
        /\ UNCHANGED result
     \/ /\ ~rootExists
        /\ InitAbort("root")
        /\ UNCHANGED <<rootExists, insideWorkTree, origin>>
  /\ UNCHANGED <<unstaged, staged, unpushed, behind, cmd, setupGit, syncVars,
                 pdfVars, sanVars, dotGit, configFile, bibFile, ignoreFile,
                 givenGit, edit, locVars, remoteEmpty>>

\* `if setup.root().join(".git").exists()`: nothing to create.
InitGitExists ==
  /\ cmd = "init"
  /\ pc = "init_git"
  /\ dotGit
  /\ pc' = "init_bind"
  /\ UNCHANGED <<gitVars, cmd, result, setupGit, syncVars, pdfVars, sanVars,
                 fsVars, initVars, locVars, remoteEmpty>>

\* What `git init` leaves: a working tree of its own, without remotes, in
\* which the files in place are untracked.
GitInitDone ==
  /\ dotGit' = TRUE
  /\ insideWorkTree' = TRUE
  /\ origin' = None
  /\ unstaged' = (configFile \/ bibFile \/ ignoreFile)
  /\ staged' = FALSE
  /\ unpushed' = FALSE
  /\ behind' = ~remoteEmpty
  /\ steps' = Append(steps, Step("create", TRUE))
  /\ pc' = "init_bind"
  /\ UNCHANGED result

\* Variant: `let _ = cmd!("git", "init")...`: a failure is dropped.
InitGitInitIgnoringFailure ==
  /\ cmd = "init"
  /\ pc = "init_git"
  /\ ~dotGit
  /\ \/ GitInitDone
     \/ /\ steps' = Append(steps, Step("create", FALSE))
        /\ pc' = "init_bind"
        /\ UNCHANGED <<gitVars, dotGit, result>>
  /\ UNCHANGED <<cmd, setupGit, syncVars, pdfVars, sanVars, rootExists,
                 configFile, bibFile, ignoreFile, givenGit, edit, locVars,
                 remoteEmpty>>
\* `cmd!("git", "init").dir(setup.root()).run()?`.
InitGitInit ==
  /\ cmd = "init"
  /\ pc = "init_git"
  /\ ~dotGit
  /\ \/ GitInitDone
     \/ /\ InitAbort("create")
        /\ UNCHANGED <<gitVars, dotGit>>
  /\ UNCHANGED <<cmd, setupGit, syncVars, pdfVars, sanVars, rootExists,
                 configFile, bibFile, ignoreFile, givenGit, edit, locVars,
                 remoteEmpty>>

\* Variant: `cmd!("git", "remote", "add", ...).run()?`.
InitRemoteAddFatal ==
  /\ cmd = "init"
  /\ pc = "init_bind"
  /\ IF insideWorkTree /\ origin = None
       THEN /\ origin' = setupGit
            /\ steps' = Append(steps, Step("bind", TRUE))
            /\ pc' = "init_pull"
            /\ UNCHANGED result
       ELSE /\ InitAbort("bind")
            /\ UNCHANGED origin
  /\ UNCHANGED <<insideWorkTree, unstaged, staged, unpushed, behind, cmd,
                 setupGit, syncVars, pdfVars, sanVars, fsVars, givenGit, edit,
                 locVars, remoteEmpty>>
\* `let _ = cmd!("git", "remote", "add", "origin", git)...run()`: git refuses
\* when a remote of that name exists; the result is dropped.
InitRemoteAdd ==
  /\ cmd = "init"
  /\ pc = "init_bind"
  /\ IF insideWorkTree /\ origin = None
       THEN /\ origin' = setupGit
            /\ steps' = Append(steps, Step("bind", TRUE))
       ELSE /\ steps' = Append(steps, Step("bind", FALSE))
            /\ UNCHANGED origin
  /\ pc' = "init_pull"
  /\ UNCHANGED <<insideWorkTree, unstaged, staged, unpushed, behind, cmd,
                 result, setupGit, syncVars, pdfVars, sanVars, fsVars,
                 givenGit, edit, locVars, remoteEmpty>>

\* `match cmd!("git", "pull", "origin", "main")...run()`: both arms only log.
\* A pull that succeeds brings the files of the remote store.
InitPull ==
  /\ cmd = "init"
  /\ pc = "init_pull"
  /\ \/ /\ origin # None
        /\ ~remoteEmpty
        /\ behind' = FALSE
        /\ configFile' = TRUE
        /\ bibFile' = TRUE
        /\ ignoreFile' = TRUE
        /\ steps' = Append(steps, Step("pull", TRUE))
     \/ /\ steps' = Append(steps, Step("pull", FALSE))
        /\ UNCHANGED <<behind, configFile, bibFile, ignoreFile>>
  /\ pc' = "init_config"
  /\ UNCHANGED <<insideWorkTree, origin, unstaged, staged, unpushed, cmd,
                 result, setupGit, syncVars, pdfVars, sanVars, rootExists,
                 dotGit, givenGit, edit, locVars, remoteEmpty>>

\* Config::load(..)? of the file in place, or config.write(..)? of a new one.
InitConfig ==
  /\ cmd = "init"
  /\ pc = "init_config"
  /\ \/ /\ steps' = Append(steps, Step("config", TRUE))
        /\ configFile' = TRUE
        /\ unstaged' = (IF configFile THEN unstaged ELSE Touched)
        /\ pc' = "init_bib"
        /\ UNCHANGED result
     \/ /\ InitAbort("config")
        /\ UNCHANGED <<configFile, unstaged>>
  /\ UNCHANGED <<insideWorkTree, origin, staged, unpushed, behind, cmd,
                 setupGit, syncVars, pdfVars, sanVars, rootExists, dotGit,
                 bibFile, ignoreFile, givenGit, edit, locVars, remoteEmpty>>

\* `if setup.bib_path().exists() {..} else { fs::write(&bib, "")? }`.
InitBib ==
  /\ cmd = "init"
  /\ pc = "init_bib"
  /\ \/ /\ steps' = Append(steps, Step("bib", TRUE))
        /\ bibFile' = TRUE
        /\ unstaged' = (IF bibFile THEN unstaged ELSE Touched)
        /\ pc' = "init_ignore"
        /\ UNCHANGED result
     \/ /\ ~bibFile
        /\ InitAbort("bib")
        /\ UNCHANGED <<bibFile, unstaged>>
  /\ UNCHANGED <<insideWorkTree, origin, staged, unpushed, behind, cmd,
                 setupGit, syncVars, pdfVars, sanVars, rootExists, dotGit,
                 configFile, ignoreFile, givenGit, edit, locVars, remoteEmpty>>

\* `if !gitignore.exists() { fs::write(&gitignore, ..)? }`, and on to
\* `setup.sync_git()?`.
InitIgnore ==
  /\ cmd = "init"
  /\ pc = "init_ignore"
  /\ \/ /\ steps' = Append(steps, Step("ignore", TRUE))
        /\ ignoreFile' = TRUE
        /\ unstaged' = (IF ignoreFile THEN unstaged ELSE Touched)
        /\ pc' = "sync_git"
        /\ UNCHANGED result
     \/ /\ ~ignoreFile
        /\ InitAbort("ignore")
        /\ UNCHANGED <<ignoreFile, unstaged>>
  /\ UNCHANGED <<insideWorkTree, origin, staged, unpushed, behind, cmd,
                 setupGit, syncVars, pdfVars, sanVars, rootExists, dotGit,
                 configFile, bibFile, givenGit, edit, locVars, remoteEmpty>>

\* Every root init can meet: absent; a directory with or without the files
\* of a store; a working tree of its own or a directory inside one; a remote
\* with or without the branch `main`.
InitStore ==
  /\ rootExists \in BOOLEAN
  /\ dotGit \in (IF rootExists THEN BOOLEAN ELSE {FALSE})
  /\ insideWorkTree \in (IF dotGit THEN {TRUE}
                         ELSE IF rootExists THEN BOOLEAN ELSE {FALSE})
  /\ origin \in (IF insideWorkTree THEN Urls \cup {None} ELSE {None})
  /\ configFile \in (IF rootExists THEN BOOLEAN ELSE {FALSE})
  /\ bibFile \in (IF rootExists THEN BOOLEAN ELSE {FALSE})
  /\ ignoreFile \in (IF rootExists THEN BOOLEAN ELSE {FALSE})
  /\ remoteEmpty \in BOOLEAN
  /\ unstaged \in (IF insideWorkTree THEN BOOLEAN ELSE {FALSE})
  /\ staged = FALSE
  /\ unpushed = FALSE
  /\ behind \in (IF origin # None /\ ~remoteEmpty THEN BOOLEAN ELSE {FALSE})
  /\ cmd = "none"
  /\ pc = "idle"
  /\ result = "none"
  /\ setupGit = None
  /\ SyncIdle
  /\ PdfIdle
  /\ SanIdle
  /\ givenGit = None
  /\ edit = NoEdit
  /\ steps = <<>>
  /\ LocIdle

NextInit ==
  \/ CmdInit
  \/ InitCreateRoot
  \/ InitGitExists
  \/ InitGitInit
  \/ InitRemoteAdd
  \/ InitPull
  \/ InitConfig
  \/ InitBib
  \/ InitIgnore
  \/ CmdSync
  \/ SyncGitEnter
  \/ SyncStatus
  \/ SyncStageAll
  \/ SyncCommit
  \/ SyncPullRebase
  \/ SyncPush

SpecInit == InitStore /\ [][NextInit]_vars

(***************************************************************************)
(* Command::Index and Command::Rm, followed by Setup::sync_git.            *)
(***************************************************************************)
\* Entries by their key; a query is a DOI, a fragment of a title, or neither.
Keys == {"k1", "k2"}
Queries == Keys \cup {"k", "zz"}

\* `doi == query || title.to_lowercase().contains(&query.to_lowercase())`.
Matches(q, e) == q = e \/ q = "k"
Entries(b, q) == {i \in 1..Len(b) : Matches(q, b[i])}

\* Bibliography::insert replaces the entry of the same key; ::remove.
Insert(b, e) == IF \E i \in 1..Len(b) : b[i] = e THEN b ELSE Append(b, e)
Remove(b, e) == SelectSeq(b, LAMBDA x : x # e)

EditStart(kind, query, force, entry, outcome) ==
  [kind |-> kind, query |-> query, force |-> force, entry |-> entry,
   mem |-> <<>>, before |-> [file |-> bibFile, content |-> bib],
   outcome |-> outcome]

\* An error leaves main with `?` or `return Err(..)`.
EditAbort(outcome) ==
  /\ edit' = [edit EXCEPT !.outcome = outcome]
  /\ pc' = "done"
  /\ result' = "err"

\* Setup::bib: `if !self.bib_path().exists() { fs::write(.., "")? }`.
BibCreateFails ==
  /\ ~bibFile
  /\ EditAbort("bib")
  /\ UNCHANGED <<bibFile, unstaged, steps>>
BibCreate ==
  /\ bibFile' = TRUE
  /\ unstaged' = (IF bibFile THEN unstaged ELSE Touched)
  /\ steps' = (IF bibFile THEN steps ELSE Append(steps, Step("bibCreate", TRUE)))

\* Command::Index up to `selection.bib()?`: the lookup, the search at dblp,
\* the prompt and the download of the entry.
CmdIndex ==
  /\ pc \in {"idle", "done"}
  /\ cmd' = "index"
  /\ steps' = <<>>
  /\ status' = NotRead
  /\ ops' = <<>>
  /\ failedAt' = "none"
  /\ pulledNew' = FALSE
  /\ \E e \in Keys :
       LET s == SetupNew(None) IN
         \/ /\ ~s.ok
            /\ setupGit' = None
            /\ pc' = "done"
            /\ result' = "err"
            /\ edit' = EditStart("index", "", FALSE, e, "setup")
         \/ /\ s.ok
            /\ setupGit' = s.git
            /\ \/ /\ pc' = "done"
                  /\ result' = "err"
                  /\ edit' = EditStart("index", "", FALSE, e, "lookup")
               \/ /\ pc' = "index_load"
                  /\ result' = "none"
                  /\ edit' = EditStart("index", "", FALSE, e, "running")
  /\ UNCHANGED <<gitVars, pdfVars, sanVars, fsVars, givenGit, locVars,
                 remoteEmpty>>

\* `let mut bib = setup.bib()?; bib.insert(Bibliography::parse(..)?...)`.
IndexLoad ==
  /\ cmd = "index"
  /\ pc = "index_load"
  /\ \/ BibCreateFails
     \/ /\ BibCreate
        /\ \/ EditAbort("bib")
           \/ EditAbort("parse")
           \/ /\ edit' = [edit EXCEPT !.mem = Insert(bib, edit.entry)]
              /\ pc' = "edit_write"
              /\ UNCHANGED result
  /\ UNCHANGED <<insideWorkTree, origin, staged, unpushed, behind, cmd,
                 setupGit, syncVars, pdfVars, sanVars, rootExists, dotGit,
                 configFile, ignoreFile, givenGit, locVars, remoteEmpty>>

\* Command::Rm up to `Setup::determine_from_cwd()?`.
CmdRm ==
  /\ pc \in {"idle", "done"}
  /\ cmd' = "rm"
  /\ steps' = <<>>
  /\ status' = NotRead
  /\ ops' = <<>>
  /\ failedAt' = "none"
  /\ pulledNew' = FALSE
  /\ \E q \in Queries, force \in BOOLEAN :
       LET s == SetupNew(None) IN
         \/ /\ ~s.ok
            /\ setupGit' = None
            /\ pc' = "done"
            /\ result' = "err"
            /\ edit' = EditStart("rm", q, force, "", "setup")
         \/ /\ s.ok
            /\ setupGit' = s.git
            /\ pc' = "rm_load"
            /\ result' = "none"
            /\ edit' = EditStart("rm", q, force, "", "running")
  /\ UNCHANGED <<gitVars, pdfVars, sanVars, fsVars, givenGit, locVars,
                 remoteEmpty>>

\* `setup.bib()?`, the filter, `if entries.is_empty() { return Err(..) }`,
\* the selection, `if force || confirm(..).interact()?`, `bib.remove(&key)`.
RmLoad ==
  /\ cmd = "rm"
  /\ pc = "rm_load"
  /\ \/ BibCreateFails
     \/ /\ BibCreate
        /\ \/ EditAbort("bib")
           \/ /\ Entries(bib, edit.query) = {}
              /\ EditAbort("nomatch")
           \/ /\ Entries(bib, edit.query) # {}
              /\ EditAbort("prompt")
           \/ \E i \in Entries(bib, edit.query),
                 yes \in (IF edit.force THEN {TRUE} ELSE BOOLEAN) :
                IF yes
                  THEN /\ edit' = [edit EXCEPT !.mem = Remove(bib, bib[i])]
                       /\ pc' = "edit_write"
                       /\ UNCHANGED result
                  ELSE /\ edit' = [edit EXCEPT !.outcome = "unconfirmed"]
                       /\ pc' = "done"
                       /\ result' = "ok"
  /\ UNCHANGED <<insideWorkTree, origin, staged, unpushed, behind, cmd,
                 setupGit, syncVars, pdfVars, sanVars, rootExists, dotGit,
                 configFile, ignoreFile, givenGit, locVars, remoteEmpty>>

\* Variant: sync_git is called whether or not the file was written.
EditWriteSyncAnyway ==
  /\ cmd \in {"index", "rm"}
  /\ pc = "edit_write"
  /\ pc' = "sync_git"
  /\ \/ /\ bib' = edit.mem
        /\ unstaged' = (IF edit.mem = bib THEN unstaged ELSE Touched)
        /\ steps' = steps \o <<Step("write", TRUE), Step("sync", TRUE)>>
        /\ edit' = [edit EXCEPT !.outcome = "written"]
     \/ /\ steps' = steps \o <<Step("write", FALSE), Step("sync", TRUE)>>
        /\ edit' = [edit EXCEPT !.outcome = "write"]
        /\ UNCHANGED <<bib, unstaged>>
  /\ UNCHANGED <<insideWorkTree, origin, staged, unpushed, behind, cmd,
                 result, setupGit, syncVars, cache, pdfDir, idx, trace, http,
                 prevClean, pdfErr, fetch, sanVars, fsVars, givenGit, locVars,
                 remoteEmpty>>
\* `fs::write(setup.bib_path(), bib.to_biblatex_string())?;` and then
\* `setup.sync_git()?;`.  A failing write may have emptied the file.
EditWrite ==
  /\ cmd \in {"index", "rm"}
  /\ pc = "edit_write"
  /\ \/ /\ bib' = edit.mem
        /\ unstaged' = (IF edit.mem = bib THEN unstaged ELSE Touched)
        /\ steps' = steps \o <<Step("write", TRUE), Step("sync", TRUE)>>
        /\ edit' = [edit EXCEPT !.outcome = "written"]
        /\ pc' = "sync_git"
        /\ UNCHANGED result
     \/ /\ steps' = Append(steps, Step("write", FALSE))
        /\ EditAbort("write")
        /\ \E emptied \in BOOLEAN :
             /\ bib' = (IF emptied THEN <<>> ELSE bib)
             /\ unstaged' = (IF emptied /\ bib # <<>> THEN Touched ELSE unstaged)
  /\ UNCHANGED <<insideWorkTree, origin, staged, unpushed, behind, cmd,
                 setupGit, syncVars, cache, pdfDir, idx, trace, http,
                 prevClean, pdfErr, fetch, sanVars, fsVars, givenGit, locVars,
                 remoteEmpty>>

\* The bibliographies a file can hold: no key twice.
StoredBibs ==
  {b \in {<<>>} \cup {<<x>> : x \in Keys} \cup (Keys \X Keys) :
     \A i, j \in 1..Len(b) : b[i] = b[j] => i = j}

\* A store with or without its bibliography file, under git or not.
InitEdit ==
  /\ rootExists = TRUE
  /\ insideWorkTree \in BOOLEAN
  /\ dotGit = insideWorkTree
  /\ origin \in (IF insideWorkTree THEN Urls \cup {None} ELSE {None})
  /\ configFile = TRUE
  /\ ignoreFile = TRUE
  /\ bibFile \in BOOLEAN
  /\ bib \in (IF bibFile THEN StoredBibs ELSE {<<>>})
  /\ remoteEmpty = FALSE
  /\ unstaged \in (IF insideWorkTree THEN BOOLEAN ELSE {FALSE})
  /\ staged = FALSE
  /\ unpushed = FALSE
  /\ behind \in (IF origin # None THEN BOOLEAN ELSE {FALSE})
  /\ cmd = "none"
  /\ pc = "idle"
  /\ result = "none"
  /\ setupGit = None
  /\ SyncIdle
  /\ cache = {}
  /\ pdfDir = FALSE
  /\ idx = 0
  /\ trace = <<>>
  /\ http = 0
  /\ prevClean = FALSE
  /\ pdfErr = "none"
  /\ fetch = NoFetch
  /\ SanIdle
  /\ givenGit = None
  /\ steps = <<>>
  /\ edit = NoEdit
  /\ LocIdle

NextEdit ==
  \/ CmdIndex
  \/ IndexLoad
  \/ CmdRm
  \/ RmLoad
  \/ EditWrite
  \/ SyncGitEnter
  \/ SyncStatus
  \/ SyncStageAll
  \/ SyncCommit
  \/ SyncPullRebase
  \/ SyncPush

SpecEdit == InitEdit /\ [][NextEdit]_vars

(***************************************************************************)
(* Helpers of the properties.                                              *)
(***************************************************************************)
Range(s) == {s[k] : k \in 1..Len(s)}
IsPrefix(s, t) == Len(s) <= Len(t) /\ s = SubSeq(t, 1, Len(s))
NoDuplicates(s) == \A a, b \in 1..Len(s) : s[a] = s[b] => a = b
DirtySeq == <<"status", "stageAll", "commit", "pullRebase", "push">>
CleanSeq == <<"status", "pullRebase">>
\* The run's one status read succeeded and reported changes / a clean tree.
ReadDirty == setupGit # None /\ status # NotRead /\ status # ""
ReadClean == setupGit # None /\ status = ""

(***************************************************************************)
(* Properties of Setup::sync_git (SpecSync).                               *)
(***************************************************************************)
\* C1: in a run with a bound remote whose status read reported changes, the
\* operations issued are a prefix of stageAll, commit, pullRebase, push (after
\* the status read), the run stops short of the whole sequence only at the
\* operation that failed, and after a failed stageAll or commit neither
\* pullRebase nor push is issued.
C1_DirtyRunOrder ==
  ReadDirty =>
    /\ IsPrefix(ops, DirtySeq)
    /\ pc = "done" => (ops = DirtySeq \/ failedAt = ops[Len(ops)])
    /\ (pc = "done" /\ result = "ok") => (ops = DirtySeq /\ failedAt = "none")
    /\ failedAt \in {"stageAll", "commit"} =>
         ("pullRebase" \notin Range(ops) /\ "push" \notin Range(ops))

C1_Witness ==
  /\ ReadDirty
  /\ pc = "done"
  /\ result = "ok"
  /\ ops = DirtySeq

\* C2: in a run with a bound remote whose status read reported a clean tree,
\* no stageAll, commit or push is issued, and the finished run has issued
\* pullRebase exactly once.
C2_CleanRunPullsOnly ==
  ReadClean =>
    /\ IsPrefix(ops, CleanSeq)
    /\ pc = "done" => ops = CleanSeq

C2_Witness ==
  /\ ReadClean
  /\ pc = "done"
  /\ result = "ok"
  /\ ops = CleanSeq

\* C3: without a bound remote, sync_git issues no version-control operation,
\* leaves the version-control state as it was and returns success.
C3_NoRemoteNoOp ==
  /\ [](setupGit = None => (ops = <<>> /\ status = NotRead /\ failedAt = "none"))
  /\ [][(pc = "sync_git" /\ setupGit = None /\ pc' # pc) =>
          /\ gitVars' = gitVars
          /\ ops' = <<>>
          /\ pc' = "done"
          /\ result' = "ok"]_vars

C3_Witness ==
  /\ cmd = "sync"
  /\ setupGit = None
  /\ pc = "done"
  /\ result = "ok"
  /\ unstaged

\* C4: status is read once, before every other operation; push is issued
\* exactly when that one reading was dirty and stageAll, commit and
\* pullRebase succeeded; a run that read a clean tree never pushes, also when
\* the rebase-pull brought remote commits in.
C4_SingleStatusGovernsPush ==
  /\ ops # <<>> =>
       (ops[1] = "status" /\ \A k \in 2..Len(ops) : ops[k] # "status")
  /\ "push" \in Range(ops) =>
       (ReadDirty /\ ops = DirtySeq /\ failedAt \in {"none", "push"})
  /\ (ReadDirty /\ pc = "done" /\ failedAt = "none") => "push" \in Range(ops)
  /\ ReadClean => "push" \notin Range(ops)

C4_Witness ==
  /\ ReadClean
  /\ pulledNew
  /\ pc = "done"
  /\ result = "ok"
  /\ "push" \notin Range(ops)

\* C5: every operation is issued at most once in a run, only the five
\* operations of sync_git are issued, and the operation that fails is the
\* last one issued: the run is over and the command has failed.
C5_FirstFailureIsLast ==
  /\ NoDuplicates(ops)
  /\ Range(ops) \subseteq Range(DirtySeq)
  /\ failedAt # "none" =>
       /\ pc = "done"
       /\ result = "err"
       /\ ops # <<>>
       /\ ops[Len(ops)] = failedAt

C5_Witness ==
  /\ failedAt = "pullRebase"
  /\ ops = <<"status", "stageAll", "commit", "pullRebase">>
  /\ pc = "done"
  /\ result = "err"


(***************************************************************************)
(* Properties of Command::Pdfs (SpecPdfs).                                 *)
(***************************************************************************)
\* The loop is at an entry that has an identifier; its cache file exists.
AtDoiEntry == AtEntry /\ bib[idx] # NoDoi
FileThere == \E f \in cache : f.name = CachePath(bib[idx])
LastOf(s) == s[Len(s)]
FsErrors == {"mkdir_failed", "write_failed", "write_truncated"}

\* C6: an entry whose cache file exists when it is processed costs no HTTP
\* request and no adapter call, leaves the cache as it is and lets the loop go
\* on; and a run that follows a successful run without a failed fetch sends no
\* HTTP request.
C6_CachedEntryNoFetch ==
  /\ [][(AtDoiEntry /\ FileThere) =>
          /\ http' = http
          /\ cache' = cache
          /\ pdfDir' = pdfDir
          /\ trace' = Append(trace, [entry |-> idx, outcome |-> "cached",
                                     adapters |-> <<>>, reqs |-> 0])
          /\ pc' = "loop"
          /\ idx' = idx + 1
          /\ result' = "none"]_vars
  /\ [](prevClean =>
          /\ http = 0
          /\ \A k \in 1..Len(trace) : trace[k].outcome \in {"nodoi", "cached"})

C6_Witness ==
  /\ prevClean
  /\ pc = "done"
  /\ result = "ok"
  /\ http = 0
  /\ Len(trace) = 2
  /\ trace[1].outcome = "cached"
  /\ trace[2].outcome = "cached"

\* C7: entries are processed once each in bibliography order; an entry without
\* identifier or whose adapter fails creates no cache file and is followed by
\* the next entry; a run ends with an error only when the repository or the
\* bibliography could not be loaded or the file system refused the artifact,
\* and otherwise returns success after the last entry.
C7_EntryFailuresDoNotStopBatch ==
  /\ [](cmd = "pdfs" =>
          /\ \A k \in 1..Len(trace) : trace[k].entry = k
          /\ Len(trace) <= Len(bib)
          /\ pc = "loop" => idx = Len(trace) + 1
          /\ \A k \in 1..Len(trace) :
               trace[k].outcome \in {"nodoi", "failed"} =>
                 \/ Len(trace) > k
                 \/ pc = "loop" /\ idx = k + 1
                 \/ k = Len(bib) /\ pc = "done" /\ result = "ok"
          /\ pdfErr \in {"none", "setup", "bib"} \cup FsErrors
          /\ result = "err" => pdfErr # "none"
          /\ (pc = "done" /\ pdfErr = "none") =>
               (result = "ok" /\ Len(trace) = Len(bib)))
  /\ [][(Len(trace') = Len(trace) + 1
           /\ LastOf(trace').outcome \in {"nodoi", "failed"}) =>
          (cache' = cache /\ pdfDir' = pdfDir)]_vars

C7_Witness ==
  /\ pc = "done"
  /\ result = "ok"
  /\ Len(trace) = 2
  /\ trace[1].outcome = "failed"
  /\ trace[2].outcome = "nodoi"
  /\ cache = {}

\* C8: every error that arises for an entry inside the loop, creating the
\* cache directory and writing the file included, is recovered: a run that
\* reached the loop processes every entry and returns success.
C8_EveryEntryErrorRecovered ==
  (cmd = "pdfs" /\ pc = "done" /\ pdfErr \notin {"setup", "bib"}) =>
    (result = "ok" /\ Len(trace) = Len(bib))

\* The characters / A R X I V . occur in d, one after the other.
HasArxivMarker(d) ==
  \E i \in 1..Len(d) :
    /\ i + Len(ArxivMarker) - 1 <= Len(d)
    /\ \A j \in 1..Len(ArxivMarker) : d[i + j - 1] = ArxivMarker[j]

\* C9: for an entry with an identifier and no cache file exactly one adapter
\* is called: arxiv when the identifier contains /ARXIV. and scihub otherwise,
\* also when that adapter fails; no adapter is called for any other entry.

C9_OneAdapterByMarker ==
  /\ [][(AtDoiEntry /\ ~FileThere) =>
          /\ Len(trace') = Len(trace) + 1
          /\ LastOf(trace').adapters =
               <<IF HasArxivMarker(bib[idx]) THEN "arxiv" ELSE "scihub">>]_vars
  /\ [][(AtEntry /\ ~(AtDoiEntry /\ ~FileThere)) =>
          /\ Len(trace') = Len(trace) + 1
          /\ LastOf(trace').adapters = <<>>
          /\ http' = http]_vars

C9_Witness ==
  /\ Len(trace) = 2
  /\ trace[1].adapters = <<"arxiv">>
  /\ trace[1].outcome = "failed"
  /\ trace[2].adapters = <<"scihub">>
  /\ trace[2].outcome = "failed"

(***************************************************************************)
(* Properties of path_safe_doi (SpecSan).                                  *)
(***************************************************************************)
SlashesBefore(i) == Cardinality({j \in 1..(i - 1) : sanIn[j] = "/"})

\* C10: the result holds, for every character of the identifier in order,
\* `--` where it is `/` and the character itself otherwise (so it holds no
\* `/`); a second application returns its argument; 10.1109/5.771073 becomes
\* 10.1109--5.771073.
C10_SanitizeSlashes ==
  /\ Len(sanOut) >= 1 =>
       LET out == sanOut[1] IN
         /\ "/" \notin Range(out)
         /\ Len(out) = Len(sanIn) + SlashesBefore(Len(sanIn) + 1)
         /\ \A i \in 1..Len(sanIn) :
              LET p == i + SlashesBefore(i) IN
                IF sanIn[i] = "/"
                  THEN out[p] = "-" /\ out[p + 1] = "-"
                  ELSE out[p] = sanIn[i]
         /\ sanIn = ExampleDoi =>
              out = <<"1", "0", ".", "1", "1", "0", "9", "-", "-", "5", ".",
                      "7", "7", "1", "0", "7", "3">>
  /\ Len(sanOut) >= 2 => sanOut[2] = sanOut[1]

C10_Witness ==
  /\ sanIn = <<"/", "a", "/", "-">>
  /\ Len(sanOut) = 2
  /\ sanOut[2] = <<"-", "-", "a", "-", "-", "-">>

(***************************************************************************)
(* C11: repository discovery.                                              *)
(***************************************************************************)
\* A directory followed by each of its ancestors, the root last.
Chain(p) == [i \in 1..(Len(p) + 1) |-> SubSeq(p, 1, Len(p) + 1 - i)]

\* The first directory of the chain of p that holds a marker, if any.
Nearest(p) ==
  LET hits == {i \in DOMAIN Chain(p) : Chain(p)[i] \in markers}
  IN  IF hits = {} THEN Global
      ELSE Found(Chain(p)[CHOOSE i \in hits : \A j \in hits : i <= j])

C18_LookupChangesNothing ==
  [][cmd' = "lookup" =>
       UNCHANGED <<markers, fsVars, gitVars, remoteEmpty, cache, pdfDir>>]_vars

\* A lookup fell back to a default directory that does not exist, and
\* returned a Setup for it.
C18_Witness ==
  /\ cmd = "lookup"
  /\ pc = "done"
  /\ result = "ok"
  /\ locFound = Global
  /\ ~rootExists

(***************************************************************************)
(* C14..C17: the cache and the two adapters.                               *)
(***************************************************************************)
\* C14: cache files are write-once: no two files share a name; a step of a
\* batch run never changes or removes a file that exists; and a file appears
\* only in a step whose adapter call returned bytes, under the sanitized
\* identifier of the entry fetched.
C14_CacheWriteOnce ==
  /\ [](\A f, g \in cache : f.name = g.name => f = g)
  /\ [][\A f \in cache : f \in cache']_vars
  /\ [][\A f \in cache' \ cache :
          /\ fetch'.adapter \in {"arxiv", "scihub"}
          /\ fetch'.res.ok
          /\ f.name = CachePath(fetch'.doi)
          /\ trace' # trace
          /\ LastOf(trace').entry = idx
          /\ fetch'.doi = bib[idx]]_vars

\* A later run met the file of its first entry and left it in place.
C14_Witness ==
  /\ cmd = "pdfs"
  /\ pc = "done"
  /\ Len(trace) >= 1
  /\ trace[1].outcome = "cached"
  /\ \E f \in cache : f.name = CachePath(bib[1]) /\ f.bytes \in PdfBodies

\* C15: the direct-fetch adapter fails without a request when the identifier
\* lacks the prefix segment, and fails when its GET meets a transport error
\* or a status other than success; such a response yields no bytes and no
\* cache file.
C15_NonSuccessYieldsNoArtifact ==
  fetch.adapter = "arxiv" =>
    /\ ~HasArxivMarker(fetch.doi) => (~fetch.res.ok /\ fetch.res.urls = <<>>)
    /\ HasArxivMarker(fetch.doi) => Len(fetch.res.urls) = 1
    /\ (fetch.doc.kind = "error" \/ fetch.doc.status \notin 200..299) =>
         /\ ~fetch.res.ok
         /\ fetch.res.bytes = NoBytes
         /\ ~\E f \in cache : f.name = CachePath(fetch.doi)

\* The line of a page that the adapter is to read: the first with the marker.
MarkedLines(page) == {k \in 1..Len(page) : Contains(page[k], EmbedMarker)}
FirstMarked(page) ==
  CHOOSE k \in MarkedLines(page) : \A j \in MarkedLines(page) : k <= j
IsSuffix(s, t) ==
  Len(s) <= Len(t) /\ s = SubSeq(t, Len(t) - Len(s) + 1, Len(t))

\* C16: a call of the scrape adapter sends one or two requests; it sends the
\* second exactly when the landing page arrived and has a line with the embed
\* marker, to the address taken from the first such line; with no such line
\* it fails after the first request, and the batch goes on to the next entry.
C16_ScrapeAtMostTwoRequests ==
  /\ [](fetch.adapter = "scihub" =>
          /\ Len(fetch.res.urls) \in {1, 2}
          /\ Len(fetch.res.urls) = 2 <=>
               (fetch.page.kind = "ok" /\ MarkedLines(fetch.page.body) # {})
          /\ Len(fetch.res.urls) = 2 =>
               IsSuffix(EmbedSrc(fetch.page.body[FirstMarked(fetch.page.body)]),
                        fetch.res.urls[2])
          /\ Len(fetch.res.urls) = 1 =>
               (~fetch.res.ok /\ fetch.doc = NoResponse))
  /\ [][(AtEntry /\ trace' # trace /\ fetch'.adapter = "scihub"
           /\ ~fetch'.res.ok) =>
          (idx' = idx + 1 /\ pc' = "loop" /\ result' = result
             /\ cache' = cache)]_vars

\* The landing page of the first entry had no marker line; the run went on
\* and ended well.
C16_Witness ==
  /\ fetch.adapter = "scihub"
  /\ fetch.page.kind = "ok"
  /\ MarkedLines(fetch.page.body) = {}
  /\ ~fetch.res.ok
  /\ Len(trace) = 2
  /\ trace[1].outcome = "failed"
  /\ trace[1].reqs = 1
  /\ pc = "done"
  /\ result = "ok"

Origin == <<"https://sci-hub.ru">>

\* C17: the second request of the scrape adapter goes to the fixed origin
\* followed by the extracted value when that value starts with `/`, and to
\* the extracted value itself otherwise.
C17_RelativeUrlResolved ==
  (fetch.adapter = "scihub" /\ Len(fetch.res.urls) = 2) =>
    LET v == EmbedSrc(fetch.page.body[FirstMarked(fetch.page.body)]) IN
      fetch.res.urls[2] = (IF v # <<>> /\ v[1] = "/" THEN Origin \o v ELSE v)

\* `/d/x.pdf` was extracted and `https://sci-hub.ru/d/x.pdf` requested.
C17_Witness ==
  /\ fetch.adapter = "scihub"
  /\ fetch.res.ok
  /\ fetch.res.urls[2] = <<"https://sci-hub.ru", "/", "d", "/", "x.pdf">>

(***************************************************************************)
(* C12, C19, C20: first-time setup.                                        *)
(***************************************************************************)
StepOps == [k \in 1..Len(steps) |-> steps[k].op]
Swallowed == {"bind", "pull"}

\* C12: an init from a supplied remote that has no branch `main` yet, whose
\* plain pull failed for it and in which nothing else went wrong, runs to
\* its end and returns success.
C12_EmptyRemoteInitSucceeds ==
  (/\ cmd = "init"
   /\ pc = "done"
   /\ givenGit # None
   /\ remoteEmpty
   /\ Step("pull", FALSE) \in Range(steps)
   /\ \A k \in 1..Len(steps) : steps[k].ok \/ steps[k].op \in Swallowed
   /\ failedAt \in {"none", "pullRebase"})
  => result = "ok"

\* C19: init with a remote runs its steps in the order create the working
\* tree, bind the remote, plain pull, then config file, bibliography file,
\* ignore file; the working tree is created exactly when the root has no
\* `.git`; a failed creation (like a failed file step) ends init with the
\* error, while a failed bind or pull is followed by the next step.
C19_InitStepOrder ==
  /\ [](cmd = "init" =>
          /\ \/ /\ setupGit # None
                /\ IsPrefix(StepOps, <<"root", "create", "bind", "pull",
                                       "config", "bib", "ignore">>)
             \/ /\ setupGit # None
                /\ IsPrefix(StepOps, <<"root", "bind", "pull",
                                       "config", "bib", "ignore">>)
             \/ /\ setupGit = None
                /\ IsPrefix(StepOps, <<"root", "config", "bib", "ignore">>)
          /\ \A k \in 1..Len(steps) :
               ~steps[k].ok =>
                 IF steps[k].op \in Swallowed
                   THEN \/ Len(steps) > k
                        \/ /\ steps[k].op = "bind" /\ pc = "init_pull"
                        \/ /\ steps[k].op = "pull" /\ pc = "init_config"
                   ELSE k = Len(steps) /\ pc = "done" /\ result = "err")
  /\ [][(cmd = "init" /\ pc = "init_git" /\ pc' # pc) =>
          ((steps' # steps /\ LastOf(steps').op = "create") <=> ~dotGit)]_vars

\* The root had a `.git`; binding and pulling both failed, and the three
\* file steps were still run.
C19_Witness ==
  /\ cmd = "init"
  /\ StepOps = <<"root", "bind", "pull", "config", "bib", "ignore">>
  /\ ~steps[2].ok
  /\ ~steps[3].ok
  /\ steps[6].ok

SetupAlive == pc \notin {"idle", "done"}

\* C20 as stated: whenever a Setup value has a bound remote, its root is a
\* working tree.
C20_BoundRemoteImpliesWorkTree ==
  (SetupAlive /\ setupGit # None) => insideWorkTree

\* C20, amended: a Setup value with a bound remote has a working tree as its
\* root when it was built by the lookup, when init has passed its step that
\* creates the working tree, and whenever sync_git runs.
C20_WorkTreeOnceCreated ==
  (SetupAlive /\ setupGit # None /\ pc \notin {"init_root", "init_git"})
    => insideWorkTree

\* init was given a URL, created the working tree, and sync_git is at its
\* first git command.
C20_Witness ==
  /\ cmd = "init"
  /\ pc = "status"
  /\ givenGit # None
  /\ setupGit = givenGit
  /\ Step("create", TRUE) \in Range(steps)
  /\ insideWorkTree

(***************************************************************************)
(* C13: the mutating commands.                                             *)
(***************************************************************************)
SyncPcs == {"sync_git", "status", "add", "commit", "pull", "push"}

\* The updated bibliography is written before sync_git is called; sync_git
\* is called once, right after a write that succeeded, and never after one
\* that failed; a removal without match or without confirmation neither
\* rewrites the bibliography nor calls sync_git.
EditOrder ==
  /\ \A k \in 1..Len(steps) :
       /\ steps[k].op = "sync" =>
            (k > 1 /\ steps[k - 1] = Step("write", TRUE) /\ k = Len(steps))
       /\ steps[k] = Step("write", TRUE) =>
            (Len(steps) > k /\ steps[k + 1].op = "sync")
       /\ steps[k] = Step("write", FALSE) =>
            (k = Len(steps) /\ pc = "done" /\ result = "err")
  /\ (pc \in SyncPcs \/ ops # <<>>) =>
       (steps # <<>> /\ LastOf(steps).op = "sync")
  /\ edit.outcome \in {"nomatch", "unconfirmed"} =>
       /\ \A k \in 1..Len(steps) : steps[k].op \notin {"write", "sync"}
       /\ ops = <<>>
       /\ pc = "done"
       /\ bib = edit.before.content

\* C13 as stated: the order above, and a removal without match or without
\* confirmation leaves the bibliography file as it was.
C13_WriteThenSyncOnce ==
  cmd \in {"index", "rm"} =>
    /\ EditOrder
    /\ edit.outcome \in {"nomatch", "unconfirmed"} =>
         bibFile = edit.before.file

\* C13, amended: the order above, and a removal without match or without
\* confirmation leaves the bibliography file as it was, except that loading
\* the bibliography has created an empty file where there was none.
C13_WriteThenSyncOnceOrEmptyFile ==
  cmd \in {"index", "rm"} =>
    /\ EditOrder
    /\ edit.outcome \in {"nomatch", "unconfirmed"} =>
         \/ bibFile = edit.before.file
         \/ ~edit.before.file /\ bibFile /\ bib = <<>>

\* rm ran on a store without bibliography file: no entry matched, and the
\* file is there now.
C13_Witness ==
  /\ cmd = "rm"
  /\ pc = "done"
  /\ edit.outcome = "nomatch"
  /\ ~edit.before.file
  /\ bibFile
  /\ steps = <<Step("bibCreate", TRUE)>>

(***************************************************************************)
(* C21: commits left behind by a failed run.                               *)
(***************************************************************************)
\* C21: a run of sync_git that made its commit and then failed at the
\* rebase-pull or at the push leaves the commit unpushed; a run that read a
\* clean tree issues status and pullRebase only and never clears an unpushed
\* commit, whether it succeeds or not.
C21_StrandedCommitNotPushed ==
  /\ []((/\ pc = "done"
         /\ "commit" \in Range(ops)
         /\ failedAt \in {"pullRebase", "push"}) => unpushed)
  /\ [](ReadClean => (IsPrefix(ops, CleanSeq) /\ "push" \notin Range(ops)))
  /\ [][(unpushed /\ status' = "") => unpushed']_vars

\* A commit was left behind, and a later run on a clean tree succeeded with
\* status and pullRebase only: the commit is still not pushed.
C21_Witness ==
  /\ cmd = "sync"
  /\ pc = "done"
  /\ result = "ok"
  /\ status = ""
  /\ ops = CleanSeq
  /\ unpushed

(***************************************************************************)
(* C22: identifiers with the same sanitized form.                          *)
(***************************************************************************)
\* Entries j and k have different identifiers and the same cache path.
Collides(j, k) ==
  /\ bib[j] # NoDoi
  /\ bib[k] # NoDoi
  /\ bib[j] # bib[k]
  /\ CachePath(bib[j]) = CachePath(bib[k])

FilesAt(path) == {f \in cache : f.name = path}

\* C22: `a/b` and `a--b` have the same cache path; once an entry was fetched
\* and saved, a later entry with another identifier and the same cache path
\* is taken as cached, in that run and in every later one: no adapter call
\* and no request for it, and the one file keeps the bytes fetched for the
\* first.
C22_CollidingEntryShadowed ==
  /\ [](CachePath(<<"a", "/", "b">>) = CachePath(<<"a", "-", "-", "b">>))
  /\ [](cmd = "pdfs" =>
          \A j, k \in 1..Len(trace) :
            (j < k /\ Collides(j, k) /\ trace[j].outcome = "fetched") =>
              /\ trace[k].outcome = "cached"
              /\ trace[k].reqs = 0
              /\ trace[k].adapters = <<>>
              /\ Cardinality(FilesAt(CachePath(bib[k]))) = 1
              /\ fetch.doi = bib[j] =>
                   \A f \in FilesAt(CachePath(bib[k])) :
                     f.bytes = fetch.res.bytes)
  /\ [][(AtDoiEntry /\ FileThere /\ \E j \in 1..Len(bib) : Collides(j, idx)) =>
          /\ http' = http
          /\ fetch' = fetch
          /\ cache' = cache
          /\ idx' = idx + 1
          /\ LastOf(trace').outcome = "cached"]_vars

\* `a/b` was fetched and saved, and `a--b` after it was skipped as cached.
C22_Witness ==
  /\ cmd = "pdfs"
  /\ pc = "done"
  /\ bib = << <<"a", "/", "b">>, <<"a", "-", "-", "b">> >>
  /\ Len(trace) = 2
  /\ trace[1].outcome = "fetched"
  /\ trace[2].outcome = "cached"
  /\ http = 2
  /\ cache = {[name |-> <<"a", "-", "-", "b", ".pdf">>, bytes |-> "pdfA"]}

(***************************************************************************)
(* C23: the remote a Setup value is bound to.                              *)
(***************************************************************************)
\* The URL the caller passes to Setup::new: init passes --git, the lookup
\* passes nothing.
Supplied == IF cmd = "init" THEN givenGit ELSE None

\* C23: a command starts by building its Setup; for a root inside a working
\* tree the remote bound is the URL of `origin`, whatever URL was supplied,
\* and without an `origin` the command ends with an error; for a root that
\* is not inside a working tree the remote bound is the supplied URL or none.
C23_BoundRemoteIsOrigin ==
  [][(pc \in {"idle", "done"} /\ cmd' \in {"init", "sync"}) =>
       IF insideWorkTree
         THEN IF origin # None
                THEN setupGit' = origin /\ pc' # "done" /\ result' = "none"
                ELSE setupGit' = None /\ pc' = "done" /\ result' = "err"
         ELSE setupGit' = Supplied' /\ pc' # "done" /\ result' = "none"]_vars

\* init was given another URL than the one of the origin in place, and the
\* Setup is bound to the origin.
C23_Witness ==
  /\ cmd = "init"
  /\ pc = "init_root"
  /\ insideWorkTree
  /\ givenGit \in GivenUrls
  /\ origin \in Urls
  /\ givenGit # origin
  /\ setupGit = origin

====
